---- MODULE Spec2Model ----
(***************************************************************************)
(* torch: a full-screen text pager (src/src/main.rs).                      *)
(*                                                                         *)
(* State: the App record (cursor, enabled, lines, pos), the terminal       *)
(* rectangle, and the canvas produced by the last paint.  Three            *)
(* specifications share the variables:                                     *)
(*   Spec        the event loop of main: one action per event arm, each    *)
(*               followed by the repaint of line 57;                       *)
(*   SpecScroll  the four mutators of App applied with arbitrary usize     *)
(*               arguments;                                                *)
(*   SpecDraw    one call of App::draw_ui on an arbitrary App and canvas.  *)
(***************************************************************************)
EXTENDS Integers, Sequences, FiniteSets

VARIABLES
    lines,          \* App.lines: Vec<String>, a sequence of sequences of chars
    pos,            \* App.pos: usize
    enabled,        \* App.enabled: bool
    cursor,         \* App.cursor: Pos2, <<x, y>>
    rect,           \* terminal.rect() / canvas.area(): [w, h], left_top = (0,0)
    overflowChecks, \* build profile: TRUE = debug (overflow panics), FALSE = release (wraps)
    pc,             \* position of the process
    writes,         \* the canvas.put calls of the last draw_ui, in order
    canvas,         \* the canvas after the last paint: in-grid coordinate -> Cell
    lastEvent,      \* the last event taken / the last mutator called
    pre,            \* [pos, enabled, cursor] before lastEvent
    prevEvent,      \* SpecScroll: the call before lastEvent
    prePrev,        \* SpecScroll: [pos, enabled, cursor] before prevEvent
    painted,        \* number of terminal.paint calls made while handling lastEvent
    run,            \* number of consecutive space-key events ending at lastEvent (0..2)
    beforeToggle    \* the canvas shown before the first event of that run

vars == <<lines, pos, enabled, cursor, rect, overflowChecks, pc, writes, canvas,
          lastEvent, pre, prevEvent, prePrev, painted, run, beforeToggle>>

----------------------------------------------------------------------------
(* Bounds of the model *)

\* usize is modelled UsizeBits wide
UsizeBits == 4
\* Spec: documents of at most LoopMaxLines lines
LoopMaxLines == 4
\* Spec: the terminal is at most LoopMaxW x LoopMaxH
LoopMaxW == 2
LoopMaxH == 2
\* SpecScroll: documents of at most ScrollMaxLines lines; the deltas are
\* 0..ScrollMaxDelta and the two largest usize values
ScrollMaxLines == 3
ScrollMaxDelta == 3
\* SpecDraw: documents of at most DrawMaxLines lines of at most DrawMaxLen chars
DrawMaxLines == 2
DrawMaxLen == 3
\* SpecDraw: the canvas is at most DrawMaxW x DrawMaxH
DrawMaxW == 2
DrawMaxH == 3

USIZE_MAX == 2^UsizeBits - 1

\* the pointer positions events report
Pointers == {<<0, 0>>, <<1, 1>>}

\* Spec: the document of n lines; its lines have 1, 2, 0, 1, 2, ... chars
LoopDoc(n) == [k \in 1..n |-> [i \in 1..(k % 3) |-> "a"]]

\* all lines of at most m chars of alphabet; all documents of at most n
\* lines of pool
LinesOf(alphabet, m) == UNION {[1..k -> alphabet] : k \in 0..m}
DocsOf(pool, n) == UNION {[1..k -> pool] : k \in 0..n}

----------------------------------------------------------------------------
(* Integer helpers of the standard library *)

Min(a, b) == IF a <= b THEN a ELSE b
Max(a, b) == IF a >= b THEN a ELSE b

\* usize::saturating_sub
saturating_sub(a, b) == IF a >= b THEN a - b ELSE 0

\* usize::checked_sub(..).unwrap_or(d)
checked_sub_unwrap_or(a, b, d) == IF a >= b THEN a - b ELSE d

----------------------------------------------------------------------------
(* App::new, App::scroll_up, App::scroll_down *)

AppState == [pos |-> pos, enabled |-> enabled, cursor |-> cursor]

\* variant of scroll_up: jumps to the top
scroll_up_top(p, delta) == [pos |-> 0, panic |-> FALSE]

\* App::scroll_up: self.pos = self.pos.saturating_sub(delta).
\* The result is [pos, panic].
scroll_up(p, delta) == [pos |-> saturating_sub(p, delta), panic |-> FALSE]

\* variant of scroll_down: no .min(self.lines.len())
scroll_down_unclamped(p, delta, len, checks) ==
    [pos |-> (p + delta) % (USIZE_MAX + 1), panic |-> FALSE]

\* variant of scroll_down: clamps to the last line index
scroll_down_last(p, delta, len, checks) ==
    [pos |-> Min((p + delta) % (USIZE_MAX + 1), saturating_sub(len, 1)),
     panic |-> FALSE]

\* App::scroll_down: self.pos = (self.pos + delta).min(self.lines.len()).
\* `+` on usize: on overflow a debug build panics and a release build wraps.
scroll_down(p, delta, len, checks) ==
    IF p + delta > USIZE_MAX
    THEN IF checks
         THEN [pos |-> p, panic |-> TRUE]
         ELSE [pos |-> Min((p + delta) % (USIZE_MAX + 1), len), panic |-> FALSE]
    ELSE [pos |-> Min(p + delta, len), panic |-> FALSE]

----------------------------------------------------------------------------
(* Colours and cells.  An Rgb is the integer 0xRRGGBB; a Cell is a char    *)
(* with a foreground and a background.                                     *)

FG == 0
BG == 15787660
SHADOW == 3355443

\* the foreground of a cell that canvas.fill leaves (no foreground set)
Reset == -1

Cell(c, fg, bg) == [ch |-> c, fg |-> fg, bg |-> bg]

Red(rgb) == rgb \div 65536
Green(rgb) == (rgb \div 256) % 256
Blue(rgb) == rgb % 256

\* one channel of Rgb::blend_flat; t is the blend factor in 1/10000
BlendChannel(a, b, t) == (a * (10000 - t) + b * t) \div 10000

\* Rgb::blend_flat(self, other, t)
blend_flat(a, b, t) ==
    BlendChannel(Red(a), Red(b), t) * 65536
    + BlendChannel(Green(a), Green(b), t) * 256
    + BlendChannel(Blue(a), Blue(b), t)

\* floor of the fourth root of n
Root4(n) == CHOOSE r \in 0..100 : r^4 <= n /\ (r = 100 \/ (r + 1)^4 > n)

\* variant of Distance4: no .max(1.5)
Distance4_nofloor(dx, dy) == 25600 * dx * dx + 90000 * dy * dy

\* x.hypot(y).sqrt().max(1.5) for x = dx * 1.6 and y = dy * 3.0, as the
\* fourth power of the distance in 1/10000: hypot^2 = 2.56 dx^2 + 9 dy^2,
\* and 1.5^4 = 5.0625.
Distance4(dx, dy) == Max(25600 * dx * dx + 90000 * dy * dy, 50625)

\* geom::lerp(0.0..=0.25, t), in 1/10000, for t given by its fourth power
\* d4 in 1/10000: t is saturated into [0, 1] before interpolating.
lerp(lo, hi, d4) ==
    IF d4 >= 10000 THEN hi
    ELSE IF d4 <= 0 THEN lo
    ELSE lo + ((hi - lo) * Root4(d4 * 10000)) \div 100

\* variant of maybe_blend: the early return for !self.enabled is missing
maybe_blend_always(self, p, c) ==
    LET x == p[1] - self.cursor[1]
        y == p[2] - self.cursor[2]
        blend == lerp(0, 2500, Distance4(x, y))
    IN Cell(c, FG, blend_flat(BG, SHADOW, blend))

\* App::maybe_blend(&self, pos, c); self is [pos, enabled, cursor]
maybe_blend(self, p, c) ==
    IF ~self.enabled
    THEN Cell(c, FG, BG)
    ELSE LET x == p[1] - self.cursor[1]
             y == p[2] - self.cursor[2]
             blend == lerp(0, 2500, Distance4(x, y))
         IN Cell(c, FG, blend_flat(BG, SHADOW, blend))

----------------------------------------------------------------------------
(* App::draw_ui.  `start` is <<x, y>>; `out` is the sequence of canvas.put  *)
(* calls made so far, each [at |-> <<x, y>>, cell |-> Cell].                *)
(* canvas.area() is taken to be the rectangle from (0, 0) to (w, h), max    *)
(* exclusive, and terminal.paint to succeed.                                *)

Put(self, at, c) == [at |-> at, cell |-> maybe_blend(self, at, c)]

\* variant of Offset: the subtraction clamps to zero
Offset_clamped(len, p, h) ==
    saturating_sub(saturating_sub(len, p), saturating_sub(h, 1))

\* lines 102-105
Offset(len, p, h) ==
    LET offset == saturating_sub(len, p)
    IN checked_sub_unwrap_or(offset, saturating_sub(h, 1), offset)

\* variant of CharLoop: wraps as soon as a put fills the last column
RECURSIVE CharLoop_eager(_, _, _, _, _, _)
CharLoop_eager(self, width, line, i, start, out) ==
    IF i > Len(line)
    THEN [start |-> start, out |-> out]
    ELSE CharLoop_eager(self, width, line, i + 1,
                        IF start[1] + 1 >= width
                        THEN <<0, start[2] + 1>>
                        ELSE <<start[1] + 1, start[2]>>,
                        Append(out, Put(self, start, line[i])))

\* lines 114-121: for c in line.chars()
RECURSIVE CharLoop(_, _, _, _, _, _)
CharLoop(self, width, line, i, start, out) ==
    IF i > Len(line)
    THEN [start |-> start, out |-> out]
    ELSE LET s == IF start[1] >= width THEN <<0, start[2] + 1>> ELSE start
         IN CharLoop(self, width, line, i + 1, <<s[1] + 1, s[2]>>,
                     Append(out, Put(self, s, line[i])))

\* variant of PadLoop: the rest of the line is not filled
PadLoop_none(self, width, start, out) == [start |-> start, out |-> out]

\* lines 124-127: fill in the rest of the line
RECURSIVE PadLoop(_, _, _, _)
PadLoop(self, width, start, out) ==
    IF start[1] < width
    THEN PadLoop(self, width, <<start[1] + 1, start[2]>>,
                 Append(out, Put(self, start, " ")))
    ELSE [start |-> start, out |-> out]

\* lines 109-130: for line in self.lines.iter().skip(offset)
RECURSIVE LineLoop(_, _, _, _, _, _)
LineLoop(self, r, ls, k, start, out) ==
    IF k > Len(ls) \/ start[2] >= r.h
    THEN [start |-> start, out |-> out]
    ELSE LET a == CharLoop(self, r.w, ls[k], 1, start, out)
             b == PadLoop(self, r.w, a.start, a.out)
         IN LineLoop(self, r, ls, k + 1, <<0, b.start[2] + 1>>, b.out)

\* Rect::from_min_max(min, max).indices(): row-major, max exclusive
RECURSIVE Indices(_, _, _, _)
Indices(min, max, x, y) ==
    IF y >= max[2] \/ min[1] >= max[1] THEN <<>>
    ELSE IF x >= max[1] THEN Indices(min, max, min[1], y + 1)
    ELSE <<(<<x, y>>)>> \o Indices(min, max, x + 1, y)

\* variant of RestOfScreen: the rest of the screen is not filled
RestOfScreen_none(self, r, start, out) == out

\* variant of RestOfScreen: the fill starts at the top of the screen
RestOfScreen_all(self, r, start, out) ==
    IF start[2] < r.h
    THEN LET ix == Indices(<<0, 0>>, <<r.w, r.h>>, 0, 0)
         IN out \o [i \in 1..Len(ix) |-> Put(self, ix[i], " ")]
    ELSE out

\* lines 133-137: fill in the rest of the screen
RestOfScreen(self, r, start, out) ==
    IF start[2] < r.h
    THEN LET ix == Indices(start, <<r.w, r.h>>, start[1], start[2])
         IN out \o [i \in 1..Len(ix) |-> Put(self, ix[i], " ")]
    ELSE out

\* the canvas.put calls of App::draw_ui(&self, canvas), in order
draw_ui(self, ls, r) ==
    LET offset == Offset(Len(ls), self.pos, r.h)
        a == LineLoop(self, r, ls, offset + 1, <<0, 0>>, <<>>)
    IN RestOfScreen(self, r, a.start, a.out)

\* the grid coordinates of a canvas of area r
Grid(r) == (0..(r.w - 1)) \X (0..(r.h - 1))

\* canvas.fill(bg): every cell is a blank on bg
Fill(r, bg) == [at \in Grid(r) |-> Cell(" ", Reset, bg)]

\* canvas.put(at, cell) for every element of ws in order: a put outside the
\* canvas has no effect on it
RECURSIVE PutAll(_, _, _)
PutAll(cv, ws, i) ==
    IF i > Len(ws) THEN cv
    ELSE PutAll(IF ws[i].at \in DOMAIN cv
                THEN [cv EXCEPT ![ws[i].at] = ws[i].cell] ELSE cv, ws, i + 1)

\* line 99 and the puts ws of the rest of draw_ui: the canvas that
\* terminal.paint hands to the terminal
Paint(self, r, ws) ==
    PutAll(Fill(r, IF self.enabled THEN FG ELSE BG), ws, 1)

----------------------------------------------------------------------------
(* The event loop of main (lines 21-60)                                    *)

Event(kind, arg, at) == [kind |-> kind, arg |-> arg, at |-> at]
NoEvent == Event("none", 0, <<0, 0>>)

\* the terminal before the first paint
Blank(r) == [at \in Grid(r) |-> Cell(" ", Reset, Reset)]

\* lines 21-22: Terminal::new, App::new(lines.lines())
Init ==
    /\ lines \in {LoopDoc(n) : n \in 0..LoopMaxLines}
    /\ rect \in [w : 0..LoopMaxW, h : 0..LoopMaxH]
    /\ overflowChecks \in BOOLEAN
    /\ pos = Len(lines)
    /\ enabled = FALSE
    /\ cursor = <<0, 0>>
    /\ pc = "start"
    /\ writes = <<>>
    /\ canvas = Blank(rect)
    /\ lastEvent = NoEvent
    /\ pre = [pos |-> pos, enabled |-> enabled, cursor |-> cursor]
    /\ prevEvent = NoEvent
    /\ prePrev = pre
    /\ painted = 0
    /\ run = 0
    /\ beforeToggle = canvas

\* variant of Repaint: paints the App as it was before the arm ran
Repaint_stale(self) ==
    /\ writes' = draw_ui(AppState, lines, rect)
    /\ canvas' = Paint(AppState, rect, writes')
    /\ painted' = 1

\* line 57 (and line 25): terminal.paint(|canvas| app.draw_ui(&mut canvas))
Repaint(self) ==
    /\ writes' = draw_ui(self, lines, rect)
    /\ canvas' = Paint(self, rect, writes')
    /\ painted' = 1

\* line 25: initial paint
InitialPaint ==
    /\ pc = "start"
    /\ Repaint(AppState)
    /\ pc' = "wait"
    /\ beforeToggle' = canvas'
    /\ UNCHANGED <<lines, pos, enabled, cursor, rect, overflowChecks,
                   lastEvent, pre, prevEvent, prePrev, run>>

\* One pass of the loop body for a recognized event ev whose arm leaves the
\* App as self (lines 27-57); a panic in the arm ends the process unpainted.
Handle(ev, self, panic) ==
    /\ pc = "wait"
    /\ lastEvent' = ev
    /\ pre' = AppState
    /\ pos' = self.pos
    /\ enabled' = self.enabled
    /\ cursor' = self.cursor
    /\ IF panic
       THEN /\ pc' = "panicked"
            /\ painted' = 0
            /\ UNCHANGED <<writes, canvas>>
       ELSE /\ pc' = "wait"
            /\ Repaint(self)
    /\ IF ev.kind = "space"
       THEN /\ run' = IF run >= 2 THEN 1 ELSE run + 1
            /\ beforeToggle' = IF run = 1 THEN beforeToggle ELSE canvas
       ELSE /\ run' = 0
            /\ beforeToggle' = canvas'
    /\ UNCHANGED <<lines, rect, overflowChecks, prevEvent, prePrev>>

\* variant of MouseScrollArm: the two directions exchanged
MouseScrollArm_swapped(self, dy, p, len, checks) ==
    LET s == IF dy < 0
             THEN scroll_up(self.pos, 3)
             ELSE scroll_down(self.pos, 3, len, checks)
    IN [pos |-> s.pos, enabled |-> self.enabled, cursor |-> p, panic |-> s.panic]

\* lines 29-38, a MouseEvent::Scroll { dir, .. } with dir.y = dy at pointer p
MouseScrollArm(self, dy, p, len, checks) ==
    LET s == IF dy < 0
             THEN scroll_down(self.pos, 3, len, checks)
             ELSE scroll_up(self.pos, 3)
    IN [pos |-> s.pos, enabled |-> self.enabled, cursor |-> p, panic |-> s.panic]

MouseScroll(dy, p) ==
    LET a == MouseScrollArm(AppState, dy, p, Len(lines), overflowChecks)
    IN Handle(Event("scroll", dy, p), [pos |-> a.pos, enabled |-> a.enabled,
                                       cursor |-> a.cursor], a.panic)

\* lines 29-38, any other MouseEvent at pointer p
MouseOtherArm(self, p) == [self EXCEPT !.cursor = p]

MouseOther(p) == Handle(Event("mouse", 0, p), MouseOtherArm(AppState, p), FALSE)

\* variant of KeySpaceArm: switches the spotlight on
KeySpaceArm_on(self) == [self EXCEPT !.enabled = TRUE]

\* variant of KeySpaceArm: the toggle also scrolls to the top
KeySpaceArm_home(self) == [self EXCEPT !.enabled = ~self.enabled, !.pos = 0]

\* line 40: Key::Char(' ')
KeySpaceArm(self) == [self EXCEPT !.enabled = ~self.enabled]

KeySpace == Handle(Event("space", 0, <<0, 0>>), KeySpaceArm(AppState), FALSE)

\* variant of KeyPageUpArm: one viewport height
KeyPageUpArm_single(p, h, len, checks) == scroll_down(p, h, len, checks)

\* lines 42-44: Key::PageUp
KeyPageUpArm(p, h, len, checks) == scroll_down(p, h * 2, len, checks)

KeyPageUp ==
    LET s == KeyPageUpArm(pos, rect.h, Len(lines), overflowChecks)
    IN Handle(Event("pageup", 0, <<0, 0>>), [AppState EXCEPT !.pos = s.pos], s.panic)

\* lines 46-48: Key::PageDown
KeyPageDownArm(p, h) == scroll_up(p, h * 2)

KeyPageDown ==
    LET s == KeyPageDownArm(pos, rect.h)
    IN Handle(Event("pagedown", 0, <<0, 0>>), [AppState EXCEPT !.pos = s.pos], s.panic)

\* line 50: Key::Up
KeyUpArm(p, len, checks) == scroll_down(p, 1, len, checks)

KeyUp ==
    LET s == KeyUpArm(pos, Len(lines), overflowChecks)
    IN Handle(Event("up", 0, <<0, 0>>), [AppState EXCEPT !.pos = s.pos], s.panic)

\* line 51: Key::Down
KeyDownArm(p) == scroll_up(p, 1)

KeyDown ==
    LET s == KeyDownArm(pos)
    IN Handle(Event("down", 0, <<0, 0>>), [AppState EXCEPT !.pos = s.pos], s.panic)

\* variant of Quit: the event is skipped like an unrecognized one
Quit_continue ==
    /\ pc = "wait"
    /\ pc' = "wait"
    /\ lastEvent' = Event("quit", 0, <<0, 0>>)
    /\ pre' = AppState
    /\ painted' = 0
    /\ run' = 0
    /\ beforeToggle' = canvas
    /\ UNCHANGED <<lines, pos, enabled, cursor, rect, overflowChecks, writes,
                   canvas, prevEvent, prePrev>>

\* line 53: Event::Quit => break
Quit ==
    /\ pc = "wait"
    /\ pc' = "done"
    /\ lastEvent' = Event("quit", 0, <<0, 0>>)
    /\ pre' = AppState
    /\ painted' = 0
    /\ run' = 0
    /\ beforeToggle' = canvas
    /\ UNCHANGED <<lines, pos, enabled, cursor, rect, overflowChecks, writes,
                   canvas, prevEvent, prePrev>>

\* line 54: _ => continue
OtherEvent ==
    /\ pc = "wait"
    /\ pc' = "wait"
    /\ lastEvent' = Event("other", 0, <<0, 0>>)
    /\ pre' = AppState
    /\ painted' = 0
    /\ run' = 0
    /\ beforeToggle' = canvas
    /\ UNCHANGED <<lines, pos, enabled, cursor, rect, overflowChecks, writes,
                   canvas, prevEvent, prePrev>>

\* line 27: wait_for_next_event returns Err, which ends the `while let`
WaitError ==
    /\ pc = "wait"
    /\ pc' = "done"
    /\ lastEvent' = Event("error", 0, <<0, 0>>)
    /\ pre' = AppState
    /\ painted' = 0
    /\ run' = 0
    /\ beforeToggle' = canvas
    /\ UNCHANGED <<lines, pos, enabled, cursor, rect, overflowChecks, writes,
                   canvas, prevEvent, prePrev>>

\* line 60: main returns Ok(()) once the loop has ended (exit code 0); a
\* panic ends the process with code 101; -1 while the process runs
ExitCode ==
    CASE pc = "done" -> 0
      [] pc = "panicked" -> 101
      [] OTHER -> 0 - 1

Next ==
    \/ InitialPaint
    \/ \E dy \in {0 - 1, 0, 1}, p \in Pointers : MouseScroll(dy, p)
    \/ \E p \in Pointers : MouseOther(p)
    \/ KeySpace
    \/ KeyPageUp
    \/ KeyPageDown
    \/ KeyUp
    \/ KeyDown
    \/ Quit
    \/ OtherEvent
    \/ WaitError

Spec == Init /\ [][Next]_vars

----------------------------------------------------------------------------
(* SpecScroll: the mutators of App called with arbitrary arguments.  The   *)
(* last two calls and the App before each are kept.                        *)

Deltas == (0..ScrollMaxDelta) \cup {USIZE_MAX - 1, USIZE_MAX}

InitScroll ==
    /\ lines \in DocsOf({<<>>}, ScrollMaxLines)
    /\ pos \in 0..Len(lines)
    /\ enabled \in BOOLEAN
    /\ cursor \in Pointers
    /\ overflowChecks \in BOOLEAN
    /\ rect = [w |-> 0, h |-> 0]
    /\ pc = "call"
    /\ writes = <<>>
    /\ canvas = Blank(rect)
    /\ lastEvent = NoEvent
    /\ pre = [pos |-> pos, enabled |-> enabled, cursor |-> cursor]
    /\ prevEvent = NoEvent
    /\ prePrev = pre
    /\ painted = 0
    /\ run = 0
    /\ beforeToggle = canvas

\* one call ev of a mutator that leaves the App as self, or panics
Call(ev, self, panic) ==
    /\ pc = "call"
    /\ pc' = IF panic THEN "panicked" ELSE "call"
    /\ prevEvent' = lastEvent
    /\ prePrev' = pre
    /\ lastEvent' = ev
    /\ pre' = AppState
    /\ pos' = self.pos
    /\ enabled' = self.enabled
    /\ cursor' = self.cursor
    /\ UNCHANGED <<lines, rect, overflowChecks, writes, canvas, painted, run,
                   beforeToggle>>

\* app.scroll_up(d)
CallScrollUp(d) ==
    LET s == scroll_up(pos, d)
    IN Call(Event("scroll_up", d, <<0, 0>>), [AppState EXCEPT !.pos = s.pos], s.panic)

\* app.scroll_down(d)
CallScrollDown(d) ==
    LET s == scroll_down(pos, d, Len(lines), overflowChecks)
    IN Call(Event("scroll_down", d, <<0, 0>>), [AppState EXCEPT !.pos = s.pos], s.panic)

\* line 40: app.enabled = !app.enabled
CallToggle == Call(Event("toggle", 0, <<0, 0>>), KeySpaceArm(AppState), FALSE)

\* line 37: app.cursor = ev.pos()
CallSetPointer(c) == Call(Event("set_pointer", 0, c), MouseOtherArm(AppState, c), FALSE)

NextScroll ==
    \/ \E d \in Deltas : CallScrollUp(d)
    \/ \E d \in Deltas : CallScrollDown(d)
    \/ CallToggle
    \/ \E c \in Pointers : CallSetPointer(c)

SpecScroll == InitScroll /\ [][NextScroll]_vars

----------------------------------------------------------------------------
(* SpecDraw: one call of App::draw_ui on an arbitrary App and canvas area  *)

\* the chars of the lines of a document: line k is made of Letters[k]
Letters == <<"a", "b", "c", "d", "e", "f", "g", "h">>

\* the document whose k-th line has lens[k] chars
DrawDoc(lens) == [k \in DOMAIN lens |-> [i \in 1..lens[k] |-> Letters[k]]]

\* all documents of at most DrawMaxLines lines of at most DrawMaxLen chars
DrawDocs == {DrawDoc(lens) : lens \in DocsOf(0..DrawMaxLen, DrawMaxLines)}

\* the document ["hello", "world"]
HelloWorld == << <<"h", "e", "l", "l", "o">>, <<"w", "o", "r", "l", "d">> >>

\* the pointer positions of SpecDraw: those of the events and a far one
DrawPointers == Pointers \cup {<<50, 50>>}

InitDraw ==
    /\ \/ /\ lines \in DrawDocs
          /\ rect \in [w : 0..DrawMaxW, h : 0..DrawMaxH]
       \/ /\ lines = HelloWorld
          /\ rect = [w |-> 5, h |-> 2]
    /\ pos \in 0..Len(lines)
    /\ enabled \in BOOLEAN
    /\ cursor \in DrawPointers
    /\ overflowChecks \in BOOLEAN
    /\ pc = "draw"
    /\ writes = <<>>
    /\ canvas = Blank(rect)
    /\ lastEvent = NoEvent
    /\ pre = [pos |-> pos, enabled |-> enabled, cursor |-> cursor]
    /\ prevEvent = NoEvent
    /\ prePrev = pre
    /\ painted = 0
    /\ run = 0
    /\ beforeToggle = canvas

\* terminal.paint(|canvas| app.draw_ui(&mut canvas))
DrawUi ==
    /\ pc = "draw"
    /\ pc' = "drawn"
    /\ Repaint(AppState)
    /\ UNCHANGED <<lines, pos, enabled, cursor, rect, overflowChecks, lastEvent,
                   pre, prevEvent, prePrev, run, beforeToggle>>

NextDraw == DrawUi

SpecDraw == InitDraw /\ [][NextDraw]_vars

----------------------------------------------------------------------------
(* Properties                                                              *)

LineCount == Len(lines)
Arg == lastEvent.arg
Panicked == pc = "panicked"

\* C1: in every state the event loop reaches, 0 <= pos <= lineCount.
C1_PosInRange == 0 <= pos /\ pos <= LineCount

\* C1 witness: a Page Down that saturates at 0 from a pos in the middle
C1_Witness ==
    /\ lastEvent.kind = "pagedown"
    /\ pre.pos > 0 /\ pre.pos < 2 * rect.h
    /\ pos = 0

\* C2 (as claimed): scroll_up(delta) sets pos to max(0, pos - delta) and
\* scroll_down(delta) sets pos to min(lineCount, pos + delta), for every
\* delta, and neither has an error outcome.
C2_ScrollTotal ==
    /\ lastEvent.kind = "scroll_up" =>
          ~Panicked /\ pos = Max(0, pre.pos - Arg)
    /\ lastEvent.kind = "scroll_down" =>
          ~Panicked /\ pos = Min(LineCount, pre.pos + Arg)

\* C3 (as claimed): a wheel event with negative vertical direction
\* decreases pos by 3 saturating at 0, one with positive vertical direction
\* increases pos by 3 saturating at lineCount.
C3_WheelAsClaimed ==
    lastEvent.kind = "scroll" =>
        /\ Arg < 0 => pos = Max(0, pre.pos - 3)
        /\ Arg > 0 => pos = Min(LineCount, pre.pos + 3)

\* C3 (amended): a wheel event with negative vertical direction increases
\* pos by 3 saturating at lineCount, one with positive vertical direction
\* decreases pos by 3 saturating at 0.
C3_Wheel ==
    lastEvent.kind = "scroll" =>
        /\ ~Panicked
        /\ Arg < 0 => pos = Min(LineCount, pre.pos + 3)
        /\ Arg > 0 => pos = Max(0, pre.pos - 3)

\* C3 witness: a negative wheel event that moved pos up by 3, short of the end
C3_Witness ==
    /\ lastEvent.kind = "scroll" /\ Arg < 0
    /\ pos = pre.pos + 3 /\ pos < LineCount

\* C4: Up increases pos by 1, Down decreases it by 1, Page Up increases it
\* by 2*H and Page Down decreases it by 2*H, each saturated into
\* [0, lineCount]; space flips enabled and leaves pos unchanged.
C4_Keys ==
    /\ lastEvent.kind \in {"up", "down", "pageup", "pagedown", "space"} => ~Panicked
    /\ lastEvent.kind = "up" => pos = Min(LineCount, pre.pos + 1)
    /\ lastEvent.kind = "down" => pos = Max(0, pre.pos - 1)
    /\ lastEvent.kind = "pageup" => pos = Min(LineCount, pre.pos + 2 * rect.h)
    /\ lastEvent.kind = "pagedown" => pos = Max(0, pre.pos - 2 * rect.h)
    /\ lastEvent.kind = "space" => enabled = ~pre.enabled /\ pos = pre.pos

\* C4 witness: a Page Up that moved pos by 2*H, short of the end
C4_Witness ==
    /\ lastEvent.kind = "pageup" /\ rect.h >= 1
    /\ pos = pre.pos + 2 * rect.h /\ pos < LineCount

\* the coordinates draw_ui has put a cell to
Written == {writes[i].at : i \in 1..Len(writes)}

\* C5: one render pass writes a cell to every grid coordinate.
C5_EveryCellWritten ==
    pc = "drawn" =>
        \A at \in Grid(rect) : at \in Written /\ canvas[at].fg # Reset

\* C5 witness: a drawn grid of at least 2x2 whose first line wraps into the
\* second row and is padded there
C5_Witness ==
    /\ pc = "drawn" /\ rect.w >= 2 /\ rect.h >= 2
    /\ canvas[<<0, 0>>].ch # " "
    /\ canvas[<<0, 1>>].ch = canvas[<<0, 0>>].ch
    /\ canvas[<<rect.w - 1, 1>>].ch = " "

\* C6 (as claimed): during one render pass no cell write targets a
\* coordinate outside the grid (x >= W or y >= H), also when a logical line
\* wraps across more rows than remain.  Stated for grids of at least one
\* column, where a write outside the grid can only come from such a line.
\* (No line index >= lineCount is read: LineLoop stops at Len(ls).)
C6_WritesInGrid ==
    (pc = "drawn" /\ rect.w >= 1) =>
        \A i \in 1..Len(writes) :
            writes[i].at[1] < rect.w /\ writes[i].at[2] < rect.h

\* C7: two space-key events in succession leave the rendered grid equal,
\* cell for cell, to the grid shown before the first of them.
C7_ToggleTwice == run = 2 => canvas = beforeToggle

\* C7 witness: the spotlight switched off and on again over a non-empty grid
C7_Witness ==
    /\ run = 2 /\ enabled
    /\ rect.w >= 1 /\ rect.h >= 1 /\ LineCount >= 1

Mutators == {"scroll_up", "scroll_down", "toggle", "set_pointer"}
Repeated == lastEvent.kind \in Mutators /\ lastEvent = prevEvent

\* C8 (as claimed): each mutator applied twice in succession leaves the
\* state equal to the state after applying it once.
C8_Idempotent == Repeated => AppState = pre

\* C8 (amended): set_pointer is idempotent; toggle is not, two toggles
\* restore the state before the first; scroll_up(d) twice equals once
\* exactly when d = 0 or the first call saturates at 0; scroll_down(d)
\* twice, when pos + d overflows in neither call, equals once exactly when
\* d = 0 or the first call saturates at lineCount.
C8_Repeated ==
    Repeated /\ ~Panicked =>
        /\ lastEvent.kind = "set_pointer" => AppState = pre
        /\ lastEvent.kind = "toggle" => AppState = prePrev /\ AppState # pre
        /\ lastEvent.kind = "scroll_up" =>
              (AppState = pre <=> (Arg = 0 \/ prePrev.pos <= Arg))
        /\ (lastEvent.kind = "scroll_down"
                /\ prePrev.pos + Arg <= USIZE_MAX /\ pre.pos + Arg <= USIZE_MAX) =>
              (AppState = pre <=> (Arg = 0 \/ prePrev.pos + Arg >= LineCount))

\* C8 witness: scroll_up(1) twice, the second call moving pos again
C8_Witness ==
    /\ Repeated /\ lastEvent.kind = "scroll_up" /\ Arg = 1
    /\ prePrev.pos = 3 /\ pre.pos = 2 /\ pos = 1

\* C9: scroll_down(d) followed by scroll_up(d) restores pos whenever
\* pos + d <= lineCount.
C9_RoundTrip ==
    (/\ prevEvent.kind = "scroll_down" /\ lastEvent.kind = "scroll_up"
     /\ prevEvent.arg = Arg
     /\ prePrev.pos + Arg <= LineCount)
    => ~Panicked /\ pos = prePrev.pos

\* C9 witness: scroll_down(2) to the last line and scroll_up(2) back
C9_Witness ==
    /\ prevEvent.kind = "scroll_down" /\ lastEvent.kind = "scroll_up"
    /\ prevEvent.arg = 2 /\ Arg = 2
    /\ prePrev.pos = 1 /\ pre.pos = 3 /\ pos = 1 /\ LineCount = 3

Recognized == {"scroll", "mouse", "space", "pageup", "pagedown", "up", "down"}

\* C10: a recognized non-quit event is followed by exactly one repaint, of
\* the state its mutation left, before the next event is taken; an
\* unrecognized event mutates nothing (and the grid shown stays current).
C10_OneRepaintPerEvent ==
    /\ (lastEvent.kind \in Recognized /\ ~Panicked) => painted = 1
    /\ lastEvent.kind = "other" => painted = 0 /\ AppState = pre
    /\ pc = "wait" => /\ writes = draw_ui(AppState, lines, rect)
                      /\ canvas = Paint(AppState, rect, writes)

\* C10 witness: a space-key event whose repaint changed the grid shown
C10_Witness ==
    /\ lastEvent.kind = "space" /\ run = 1 /\ painted = 1
    /\ pc = "wait" /\ canvas # beforeToggle

\* C11: a quit event ends the loop: it mutates nothing and repaints
\* nothing, no step follows it, and the process ends with exit code 0.
C11_QuitEnds ==
    [][/\ pc # "done"
       /\ lastEvent'.kind = "quit" =>
            /\ pc' = "done" /\ ExitCode' = 0
            /\ painted' = 0
            /\ AppState' = AppState /\ lines' = lines
            /\ canvas' = canvas /\ writes' = writes]_vars

\* C11 witness: the loop ended by a quit event after the App had changed
C11_Witness ==
    /\ lastEvent.kind = "quit" /\ pc = "done" /\ ExitCode = 0
    /\ pos # LineCount /\ enabled

\* the colour of every cell under the spotlight: parchment blended toward
\* shadow by 0.25
Spotlit == blend_flat(BG, SHADOW, 2500)

\* the grid draw_ui renders with the pointer at c, all else as it is
RenderAt(c) ==
    LET self == [AppState EXCEPT !.cursor = c]
    IN Paint(self, rect, draw_ui(self, lines, rect))

\* C12: with enabled = false every cell written has foreground ink and
\* background parchment, and the grid rendered is the same for every pointer.
C12_NormalIgnoresPointer ==
    (pc = "drawn" /\ ~enabled) =>
        /\ \A i \in 1..Len(writes) :
              writes[i].cell.fg = FG /\ writes[i].cell.bg = BG
        /\ \A at \in Grid(rect) : canvas[at].fg = FG /\ canvas[at].bg = BG
        /\ \A c \in DrawPointers : RenderAt(c) = canvas

\* C12 witness: a non-empty grid drawn in Normal mode with the pointer on a
\* cell of it other than the origin
C12_Witness ==
    /\ pc = "drawn" /\ ~enabled
    /\ cursor = <<1, 1>> /\ cursor \in Grid(rect)
    /\ \E at \in Grid(rect) : canvas[at].ch # " "

\* C13: with enabled = true the blend factor of every cell is exactly 0.25
\* for every pointer, so every cell written has foreground ink and
\* background parchment blended toward shadow by 0.25.
C13_SpotlightSaturated ==
    (pc = "drawn" /\ enabled) =>
        /\ \A i \in 1..Len(writes) :
              writes[i].cell.fg = FG /\ writes[i].cell.bg = Spotlit
        /\ \A at \in Grid(rect) :
              /\ lerp(0, 2500, Distance4(at[1] - cursor[1], at[2] - cursor[2])) = 2500
              /\ canvas[at].fg = FG /\ canvas[at].bg = Spotlit

\* C13 witness: a grid drawn under the spotlight with the pointer on one of
\* its cells (raw distance 0 there)
C13_Witness ==
    /\ pc = "drawn" /\ enabled
    /\ cursor = <<1, 1>> /\ cursor \in Grid(rect)
    /\ canvas[cursor].bg = Spotlit /\ Spotlit # BG

\* the start offset as the claim words it: H - 1 is an integer subtraction
SkipAsClaimed(len, p, h) ==
    LET raw == len - p
    IN IF raw >= h - 1 THEN raw - (h - 1) ELSE raw

\* the start offset with H - 1 saturated at 0
SkipAmended(len, p, h) ==
    LET raw == len - p
        h1 == IF h >= 1 THEN h - 1 ELSE 0
    IN IF raw >= h1 THEN raw - h1 ELSE raw

\* the chars of the cell writes, in order
WrittenChars == [i \in 1..Len(writes) |-> writes[i].cell.ch]

\* the first row drawn shows document line k (1-based) from its first char
FirstRowShows(k) ==
    IF Len(lines[k]) = 0
    THEN WrittenChars[1] = " "
    ELSE \A i \in 1..Len(lines[k]) : WrittenChars[i] = lines[k][i]

\* no document line is drawn: every cell written is a blank
NothingShown == \A i \in 1..Len(writes) : WrittenChars[i] = " "

\* the rows "hello" and "world" with no padding
HelloWorldRows ==
    /\ WrittenChars = HelloWorld[1] \o HelloWorld[2]
    /\ \A x \in 0..4 : /\ canvas[<<x, 0>>].ch = HelloWorld[1][x + 1]
                       /\ canvas[<<x, 1>>].ch = HelloWorld[2][x + 1]

\* what C14 says of a drawn frame, for the start offset skip
SkipHolds(skip) ==
    /\ Offset(LineCount, pos, rect.h) = skip
    /\ 0 <= skip /\ skip <= LineCount
    /\ (rect.w >= 1 /\ rect.h >= 1 /\ skip < LineCount) => FirstRowShows(skip + 1)
    /\ (rect.w >= 1 /\ rect.h >= 1 /\ skip = LineCount) => NothingShown
    /\ (lines = HelloWorld /\ pos \in {1, 2}) => skip = 0 /\ HelloWorldRows

\* C14 (as claimed): the first document line rendered is skip, where
\* raw = lineCount - pos and skip = raw - (H - 1) if raw >= H - 1, else raw;
\* 0 <= skip <= lineCount; ["hello", "world"] on 5x2 at pos 2 and pos 1
\* gives skip = 0 and the rows "hello", "world" with no padding.
C14_SkipAsClaimed ==
    pc = "drawn" => SkipHolds(SkipAsClaimed(LineCount, pos, rect.h))

\* C14 (amended): the same with H - 1 saturated at 0 (for H = 0, skip = raw).
C14_Skip ==
    pc = "drawn" => SkipHolds(SkipAmended(LineCount, pos, rect.h))

\* C14 witness: ["hello", "world"] drawn on 5x2 at pos = 1
C14_Witness ==
    /\ pc = "drawn" /\ lines = HelloWorld /\ pos = 1
    /\ canvas[<<0, 0>>].ch = "h" /\ canvas[<<4, 1>>].ch = "d"

\* the rows a line of n chars takes at width w >= 1: max(1, ceil(n / w))
RowsOf(n, w) == Max(1, (n + w - 1) \div w)

\* a line laid out from row r at width w: its chars, then blanks up to the
\* end of its last row; each element is [at, ch]
LaidOut(line, r, w) ==
    [i \in 1..(RowsOf(Len(line), w) * w) |->
        [at |-> <<(i - 1) % w, r + (i - 1) \div w>>,
         ch |-> IF i <= Len(line) THEN line[i] ELSE " "]]

\* the lines k, k + 1, ... laid out one after another from row r, a line
\* being started only on a row of the grid
RECURSIVE Layout(_, _)
Layout(k, r) ==
    IF k > LineCount \/ r >= rect.h THEN <<>>
    ELSE LaidOut(lines[k], r, rect.w)
         \o Layout(k + 1, r + RowsOf(Len(lines[k]), rect.w))

\* the row after the last line laid out
RECURSIVE EndRow(_, _)
EndRow(k, r) ==
    IF k > LineCount \/ r >= rect.h THEN r
    ELSE EndRow(k + 1, r + RowsOf(Len(lines[k]), rect.w))

FirstLine == SkipAmended(LineCount, pos, rect.h) + 1

\* C15: for W >= 1 each rendered line of n chars takes max(1, ceil(n / W))
\* rows of cell writes and is followed by rows * W - n blank cells: the
\* writes of the lines are exactly their layout, row after row.
C15_WrapAndPad ==
    (pc = "drawn" /\ rect.w >= 1) =>
        LET exp == Layout(FirstLine, 0)
        IN /\ Len(writes) >= Len(exp)
           /\ \A i \in 1..Len(exp) :
                 writes[i].at = exp[i].at /\ writes[i].cell.ch = exp[i].ch

\* C15 witness: one line of W + 1 chars: a second row of one char and
\* W - 1 blanks
C15_Witness ==
    /\ pc = "drawn" /\ rect.w = 2 /\ rect.h >= 2
    /\ LineCount = 1 /\ Len(lines[1]) = rect.w + 1 /\ pos = 1
    /\ writes[3].at = <<0, 1>> /\ WrittenChars[3] = "a"
    /\ writes[4].at = <<1, 1>> /\ WrittenChars[4] = " "

\* the blank cell of the current mode
BlankCell == Cell(" ", FG, IF enabled THEN Spotlit ELSE BG)

\* C16: when the lines from skip on end before row H, every cell of the
\* rows left is a blank in the colours of the current mode; an empty
\* document renders W * H blank cells.
C16_RestBlank ==
    (pc = "drawn" /\ rect.w >= 1) =>
        /\ \A at \in Grid(rect) :
              at[2] >= EndRow(FirstLine, 0) => canvas[at] = BlankCell
        /\ LineCount = 0 =>
              /\ Len(writes) = rect.w * rect.h
              /\ \A at \in Grid(rect) : canvas[at] = BlankCell

\* C16 witness: a document drawn under the spotlight that ends above the
\* last row
C16_Witness ==
    /\ pc = "drawn" /\ enabled /\ rect.w >= 1 /\ rect.h >= 2
    /\ LineCount >= 1 /\ EndRow(FirstLine, 0) < rect.h
    /\ canvas[<<0, 0>>].ch # " "
    /\ canvas[<<0, rect.h - 1>>] = BlankCell

\* C17 (as claimed): with H = 0 or W = 0 draw_ui makes no cell write at all.
C17_NoWritesOnEmptyGrid ==
    (pc = "drawn" /\ (rect.w = 0 \/ rect.h = 0)) => writes = <<>>

\* C19: for W >= 1 no coordinate of the grid is written more than once in
\* one render pass.
C19_WritesDisjoint ==
    (pc = "drawn" /\ rect.w >= 1) =>
        \A i, j \in 1..Len(writes) :
            (i # j /\ writes[i].at \in Grid(rect)) => writes[i].at # writes[j].at

\* C19 witness: a pass in which the char loop, the padding loop and the
\* rest-of-screen fill each wrote cells
C19_Witness ==
    /\ pc = "drawn" /\ rect.w = 2 /\ rect.h = 2
    /\ LineCount = 1 /\ Len(lines[1]) = 1 /\ pos = 1
    /\ WrittenChars = <<"a", " ", " ", " ">>

\* the number of the fields pos, enabled, cursor a step changes
FieldsChanged ==
    (IF pos' # pos THEN 1 ELSE 0)
    + (IF enabled' # enabled THEN 1 ELSE 0)
    + (IF cursor' # cursor THEN 1 ELSE 0)

\* C18 (as claimed): every event changes at most one of pos, enabled and
\* pointer, and never the document.
C18_OneFieldPerEvent == [][lines' = lines /\ FieldsChanged <= 1]_vars

\* C18 (amended): every event changes at most one of pos, enabled and
\* pointer, except a scroll-wheel event, which sets the pointer and may
\* change pos as well (never enabled); no event changes the document.
C18_OneMutationPerEvent ==
    [][/\ lines' = lines
       /\ \/ FieldsChanged <= 1
          \/ lastEvent'.kind = "scroll" /\ enabled' = enabled]_vars

\* C18 witness: a scroll-wheel event that changed pos and the pointer
C18_Witness ==
    /\ lastEvent.kind = "scroll"
    /\ pos # pre.pos /\ cursor # pre.cursor /\ enabled = pre.enabled

====
